---- MODULE Spec2Model ----
(***************************************************************************)
(* Airflow MCP server (src/server.py): the API client make_api_request,    *)
(* the tool registry list_tools and the dispatcher call_tool.              *)
(*                                                                         *)
(* JSON values (tool arguments, request bodies, upstream payloads) are     *)
(* tagged records.  A text is the sequence of the fragments that the       *)
(* f-strings of the source concatenate; an emoji of the source is written  *)
(* as its short code (":x:" for the cross mark) and the code fence of      *)
(* three backquotes as "~~~".  call_tool is a coroutine: it is modelled by *)
(* what it does given the results of the API calls it has awaited so far,  *)
(* and it advances when the upstream answers.  The start of the process,   *)
(* main with auto_update_check and its git commands, has a specification   *)
(* of its own.                                                             *)
(***************************************************************************)
EXTENDS Integers, Sequences, FiniteSets, TLC

VARIABLES pc, name, arguments, sent, answers, replies, result, escaped, listed,
          listedBefore, env, mainpc, ran, printed

vars == <<pc, name, arguments, sent, answers, replies, result, escaped, listed,
          listedBefore, env, mainpc, ran, printed>>

\* The variables of a tool call and of the registry, and those of the start
\* of the process: the value of GIT_AUTO_UPDATE, the position of main, the
\* git commands run so far with their outcomes, and the lines printed.
serverVars == <<pc, name, arguments, sent, answers, replies, result, escaped, listed,
                listedBefore>>
startupVars == <<env, mainpc, ran, printed>>

\* Longest list that an upstream payload carries.
MaxItems == 2

-----------------------------------------------------------------------------
(* JSON / Python values *)

JNull == [kind |-> "null"]
JBool(b) == [kind |-> "bool", b |-> b]
JInt(n) == [kind |-> "int", n |-> n]
JStr(s) == [kind |-> "str", s |-> s]
JList(l) == [kind |-> "list", l |-> l]
JObj(o) == [kind |-> "obj", o |-> o]

EmptyDict == [k \in {} |-> JNull]

IsDict(v) == v.kind = "obj"

\* Python truthiness: None, False, 0, "", [] and {} are false.
Truthy(v) ==
    CASE v.kind = "null" -> FALSE
      [] v.kind = "bool" -> v.b
      [] v.kind = "int" -> v.n # 0
      [] v.kind = "str" -> v.s # ""
      [] v.kind = "list" -> v.l # <<>>
      [] v.kind = "obj" -> DOMAIN v.o # {}

\* Python's type(v).__name__, as error messages quote it.
TypeName(v) ==
    CASE v.kind = "null" -> "NoneType"
      [] v.kind = "bool" -> "bool"
      [] v.kind = "int" -> "int"
      [] v.kind = "str" -> "str"
      [] v.kind = "list" -> "list"
      [] v.kind = "obj" -> "dict"

\* The keys that objects of the model carry, in the order they are written.
KeyOrder ==
    <<"detail", "content", "dags", "tasks", "task_instances", "dag_runs",
      "import_errors", "connections", "stats", "metadatabase", "scheduler",
      "dag_id", "dag_run_id", "task_id", "connection_id", "state", "count",
      "status", "latest_scheduler_heartbeat", "is_paused", "description",
      "schedule_interval", "operator_name", "downstream_task_ids",
      "try_number", "duration", "start_date", "end_date", "execution_date",
      "filename", "stack_trace", "conn_type", "host", "schema", "login",
      "port", "extra", "dry_run", "conf", "logical_date", "key", "title">>

RECURSIVE Join(_, _)
\* sep.join(parts) over texts.
Join(parts, sep) ==
    IF parts = <<>> THEN <<>>
    ELSE IF Len(parts) = 1 THEN Head(parts)
    ELSE Head(parts) \o <<sep>> \o Join(Tail(parts), sep)

RECURSIVE Dump(_, _)
\* repr(v) of Python (py = TRUE) and the JSON text of v (py = FALSE).
Dump(v, py) ==
    CASE v.kind = "null" -> <<IF py THEN "None" ELSE "null">>
      [] v.kind = "bool" ->
            <<IF py THEN (IF v.b THEN "True" ELSE "False")
                    ELSE (IF v.b THEN "true" ELSE "false")>>
      [] v.kind = "int" -> <<ToString(v.n)>>
      [] v.kind = "str" ->
            IF py THEN <<"'", v.s, "'">> ELSE <<"\"", v.s, "\"">>
      [] v.kind = "list" ->
            <<"[">> \o Join([i \in 1..Len(v.l) |-> Dump(v.l[i], py)], ", ")
                    \o <<"]">>
      [] v.kind = "obj" ->
            LET keys == SelectSeq(KeyOrder, LAMBDA k : k \in DOMAIN v.o)
                q == IF py THEN "'" ELSE "\""
            IN <<"{">> \o Join([i \in 1..Len(keys) |->
                                  <<q, keys[i], q, ": ">> \o Dump(v.o[keys[i]], py)],
                               ", ")
                       \o <<"}">>

\* str(v), as an f-string inserts it.
Str(v) == IF v.kind = "str" THEN <<v.s>> ELSE Dump(v, TRUE)

\* Whether text t holds the fragments of u, contiguous and in order.
Contains(t, u) ==
    \E i \in 0..(Len(t) - Len(u)) : SubSeq(t, i + 1, i + Len(u)) = u

StartsWith(t, u) == Len(t) >= Len(u) /\ SubSeq(t, 1, Len(u)) = u

-----------------------------------------------------------------------------
(* Outcomes of a statement: a value, an exception, or a suspended await *)

Ok(v) == [kind |-> "ok", value |-> v]
Raise(e) == [kind |-> "raise", exc |-> e]
Return(t) == [kind |-> "return", text |-> t]
Suspend(r) == [kind |-> "request", req |-> r]

Exc(type, msg) == [type |-> type, msg |-> msg]

\* The classes that "except Exception" catches: all of those raised here.
ExceptionTypes == {"Exception", "ValueError", "KeyError", "TypeError", "AttributeError"}

KeyError(k) == Exc("KeyError", <<"'", k, "'">>)
NoAttribute(v, attr) ==
    Exc("AttributeError", <<"'", TypeName(v), "' object has no attribute '", attr, "'">>)
NotSubscriptable(v) ==
    Exc("TypeError", <<"'", TypeName(v), "' object is not subscriptable">>)
NotIterable(v) ==
    Exc("TypeError", <<"'", TypeName(v), "' object is not iterable">>)
NoLen(v) ==
    Exc("TypeError", <<"object of type '", TypeName(v), "' has no len()">>)
CannotConcat(v) ==
    Exc("TypeError", <<"can only concatenate str (not \"", TypeName(v), "\") to str">>)

\* d.get(k, default) on a dict d (a function from keys to values).
DictGet(d, k, default) == IF k \in DOMAIN d THEN d[k] ELSE default

\* v.get(k, default) on any value: only a dict has the method.
Get(v, k, default) ==
    IF IsDict(v) THEN Ok(DictGet(v.o, k, default)) ELSE Raise(NoAttribute(v, "get"))

\* v[k] with a string key: KeyError on a dict without it.  (A list or a string
\* indexed by a string raises TypeError too, with another message.)
Index(v, k) ==
    IF IsDict(v)
    THEN IF k \in DOMAIN v.o THEN Ok(v.o[k]) ELSE Raise(KeyError(k))
    ELSE Raise(NotSubscriptable(v))

\* Every element of seq in turn through F, up to the first that raises; the
\* texts of those before it are concatenated (a for loop that appends).
RECURSIVE ForEach(_, _)
ForEach(F(_), seq) ==
    IF seq = <<>> THEN Ok(<<>>)
    ELSE LET first == F(Head(seq))
         IN IF first.kind = "raise" THEN first
            ELSE LET rest == ForEach(F, Tail(seq))
                 IN IF rest.kind = "raise" THEN rest
                    ELSE Ok(first.value \o rest.value)

\* f"{item.get(k, 'N/A')}" on a dict item.
\* A field lookup that renders a missing member as the empty string.
Field_EmptyDefault(item, k, default) == Str(DictGet(item.o, k, JStr("")))

Field(item, k, default) == Str(DictGet(item.o, k, JStr(default)))

\* str.lower() on the state names that the upstream sends.
Lower(s) ==
    CASE s = "FAILED" -> "failed"
      [] s = "Running" -> "running"
      [] s = "Success" -> "success"
      [] OTHER -> s

-----------------------------------------------------------------------------
(* Configuration (lines 24-28) *)

AIRFLOW_API_URL == "http://localhost:8080/api/v2"
AIRFLOW_BASE_URL == "http://localhost:8080"

-----------------------------------------------------------------------------
(* API client *)

\* The request that make_api_request hands to httpx.
ApiCall(method, endpoint, params, json_data) ==
    [method |-> method,
     endpoint |-> endpoint,
     url |-> <<AIRFLOW_API_URL, "/">> \o endpoint,
     params |-> params,
     json |-> json_data]

\* What the upstream does with one request: an HTTP response, whose body is
\* JSON text or not, or a failure below HTTP.
HttpResponse(status, value) ==
    [kind |-> "response", status |-> status, parses |-> TRUE, value |-> value, raw |-> ""]
RawResponse(status, raw) ==
    [kind |-> "response", status |-> status, parses |-> FALSE, value |-> JNull, raw |-> raw]
NetworkError(cause) == [kind |-> "network_error", cause |-> cause]

\* response.text
ResponseText(o) == IF o.parses THEN Dump(o.value, FALSE) ELSE <<o.raw>>

\* response.is_success, which raise_for_status tests.
IsSuccess(status) == 200 <= status /\ status <= 299

\* The detail that a failed response is reported with (lines 85-90): the body's
\* "detail" member when the body is a JSON object, the body text otherwise.
ErrorDetail(o) ==
    IF o.parses /\ IsDict(o.value)
    THEN IF "detail" \in DOMAIN o.value.o THEN Str(o.value.o["detail"]) ELSE ResponseText(o)
    ELSE ResponseText(o)

\* make_api_request reporting a failed response with its body text always.
make_api_request_RawDetail(o) ==
    IF o.kind = "network_error"
    THEN Raise(Exc("Exception", <<"Connection error: ", o.cause>>))
    ELSE IF ~IsSuccess(o.status)
    THEN Raise(Exc("Exception",
                   <<"API request failed (", ToString(o.status), "): ">> \o ResponseText(o)))
    ELSE IF o.parses
    THEN Ok(o.value)
    ELSE Raise(Exc("Exception",
                   <<"Unexpected error: ", "Expecting value: line 1 column 1 (char 0)">>))

\* make_api_request reporting a failed response without its status code.
make_api_request_WithoutStatus(o) ==
    IF o.kind = "network_error"
    THEN Raise(Exc("Exception", <<"Connection error: ", o.cause>>))
    ELSE IF ~IsSuccess(o.status)
    THEN Raise(Exc("Exception", <<"API request failed: ">> \o ErrorDetail(o)))
    ELSE IF o.parses
    THEN Ok(o.value)
    ELSE Raise(Exc("Exception",
                   <<"Unexpected error: ", "Expecting value: line 1 column 1 (char 0)">>))

\* What the await of make_api_request yields, given what the upstream did.
make_api_request(o) ==
    IF o.kind = "network_error"
    THEN Raise(Exc("Exception", <<"Connection error: ", o.cause>>))
    ELSE IF ~IsSuccess(o.status)
    THEN Raise(Exc("Exception",
                   <<"API request failed (", ToString(o.status), "): ">> \o ErrorDetail(o)))
    ELSE IF o.parses
    THEN Ok(o.value)
    ELSE Raise(Exc("Exception",
                   <<"Unexpected error: ", "Expecting value: line 1 column 1 (char 0)">>))

\* "await make_api_request(...)" as the i-th call of a handler that has the
\* results got so far: the call's result, or the coroutine suspended on it.
Await(req, got, i) == IF Len(got) < i THEN Suspend(req) ELSE got[i]

-----------------------------------------------------------------------------
(* Tool registry *)

Prop(type) == [type |-> type]
PropDefault(type, default) == [type |-> type, default |-> default]

\* A registry whose schemas describe arrays.
Tool_ArraySchema(n, schema) == [name |-> n, inputSchema |-> [schema EXCEPT !.type = "array"]]

Tool(n, schema) == [name |-> n, inputSchema |-> schema]

\* The tools that list_tools lists (descriptions left out), in the groups of
\* the source: DAG management,
DagManagementTools ==
    << Tool("get_dags",
            [type |-> "object",
             properties |-> [only_active |-> Prop("boolean"),
                             limit |-> PropDefault("integer", JInt(100))]]),
       Tool("get_dag_tasks",
            [type |-> "object",
             properties |-> [dag_id |-> Prop("string")],
             required |-> <<"dag_id">>]),
       Tool("trigger_dag_run",
            [type |-> "object",
             properties |-> [dag_id |-> Prop("string"),
                             conf |-> Prop("object"),
                             logical_date |-> Prop("string")],
             required |-> <<"dag_id">>]),
       Tool("clear_dag_run",
            [type |-> "object",
             properties |-> [dag_id |-> Prop("string"),
                             dag_run_id |-> Prop("string"),
                             dry_run |-> PropDefault("boolean", JBool(FALSE))],
             required |-> <<"dag_id", "dag_run_id">>]),
       Tool("set_dag_state",
            [type |-> "object",
             properties |-> [dag_id |-> Prop("string"),
                             is_paused |-> Prop("boolean")],
             required |-> <<"dag_id", "is_paused">>]) >>

\* monitoring and status,
MonitoringTools ==
    << Tool("get_dag_runs",
            [type |-> "object",
             properties |-> [dag_id |-> Prop("string"),
                             state |-> Prop("string"),
                             limit |-> PropDefault("integer", JInt(25))],
             required |-> <<"dag_id">>]),
       Tool("get_task_instances",
            [type |-> "object",
             properties |-> [dag_id |-> Prop("string"),
                             dag_run_id |-> Prop("string")],
             required |-> <<"dag_id", "dag_run_id">>]),
       Tool("get_dag_stats",
            [type |-> "object", properties |-> EmptyDict]) >>

\* debugging and logs,
DebuggingTools ==
    << Tool("get_task_logs",
            [type |-> "object",
             properties |-> [dag_id |-> Prop("string"),
                             dag_run_id |-> Prop("string"),
                             task_id |-> Prop("string"),
                             try_number |-> PropDefault("integer", JInt(1))],
             required |-> <<"dag_id", "dag_run_id", "task_id">>]),
       Tool("get_import_errors",
            [type |-> "object", properties |-> EmptyDict]) >>

\* connection management,
ConnectionTools ==
    << Tool("get_connections",
            [type |-> "object",
             properties |-> [limit |-> PropDefault("integer", JInt(100))]]),
       Tool("get_connection",
            [type |-> "object",
             properties |-> [connection_id |-> Prop("string")],
             required |-> <<"connection_id">>]),
       Tool("test_connection",
            [type |-> "object",
             properties |-> [connection_id |-> Prop("string")],
             required |-> <<"connection_id">>]) >>

\* and the health check.
HealthTools ==
    << Tool("check_health",
            [type |-> "object", properties |-> EmptyDict]) >>

\* A registry with a tool that call_tool has no branch for.
list_tools_UnhandledTool ==
    DagManagementTools \o MonitoringTools \o DebuggingTools \o ConnectionTools \o HealthTools
    \o <<Tool("get_variables", [type |-> "object", properties |-> EmptyDict])>>

\* The list that list_tools builds at every call.
list_tools ==
    DagManagementTools \o MonitoringTools \o DebuggingTools \o ConnectionTools \o HealthTools

-----------------------------------------------------------------------------
(* Tool handlers: the branches of call_tool.  Each takes the arguments and  *)
(* the results (got) of the API calls awaited so far, and yields the text   *)
(* it returns, the exception it raises, or the request it is suspended on.  *)

\* "v = x; K(v)": the statements K after a statement x run when x yields a
\* value; an exception of x, or its suspension, ends the block.
Bind(x, K(_)) == IF x.kind = "ok" THEN K(x.value) ELSE x

\* "try: x / except Exception as e: H(e)".
Catch(x, H(_)) == IF x.kind = "raise" /\ x.exc.type \in ExceptionTypes THEN H(x.exc) ELSE x

\* arguments["k1"], arguments["k2"], ... in this order: the first that raises.
Require(args, keys) ==
    IF ~IsDict(args) THEN Raise(NotSubscriptable(args))
    ELSE IF \E i \in 1..Len(keys) : keys[i] \notin DOMAIN args.o
    THEN Raise(KeyError(keys[CHOOSE i \in 1..Len(keys) :
                               /\ keys[i] \notin DOMAIN args.o
                               /\ \A j \in 1..(i - 1) : keys[j] \in DOMAIN args.o]))
    ELSE Ok(args.o)

\* arguments.get(...) as the first statement: arguments must be a dict.
Optional(args) == IF IsDict(args) THEN Ok(args.o) ELSE Raise(NoAttribute(args, "get"))

\* len(v) and "for x in v" need a list; None has neither.
ItemsOf(v) == IF v.kind = "list" THEN Ok(v.l) ELSE Raise(NoLen(v))

\* "for x in v" alone: None is not iterable.
IterOf(v) == IF v.kind = "list" THEN Ok(v.l) ELSE Raise(NotIterable(v))

\* Lines 362-365.
DagLine(dag) ==
    IF ~IsDict(dag) THEN Raise(NoAttribute(dag, "get"))
    ELSE IF "dag_id" \notin DOMAIN dag.o THEN Raise(KeyError("dag_id"))
    ELSE Ok(<<"- **">> \o Str(dag.o["dag_id"]) \o <<"** (">>
            \o (IF Truthy(DictGet(dag.o, "is_paused", JNull))
                THEN <<":pause_button:", " Paused">>
                ELSE <<":arrow_forward:", " Active">>)
            \o <<")\n", "  - Description: ">> \o Field(dag, "description", "N/A")
            \o <<"\n", "  - Schedule: ">> \o Field(dag, "schedule_interval", "N/A")
            \o <<"\n\n">>)

\* Lines 353-355.
GetDagsParams(a) ==
    IF Truthy(DictGet(a, "only_active", JBool(FALSE)))
    THEN [limit |-> DictGet(a, "limit", JInt(100)), only_active |-> JStr("true")]
    ELSE [limit |-> DictGet(a, "limit", JInt(100))]

get_dags(args, got) ==
    Bind(Optional(args), LAMBDA a :
    Bind(Await(ApiCall("GET", <<"dags">>, JObj(GetDagsParams(a)), JNull), got, 1),
         LAMBDA r :
    Bind(Get(r, "dags", JList(<<>>)), LAMBDA dags :
    Bind(ItemsOf(dags), LAMBDA items :
    Bind(ForEach(DagLine, items), LAMBDA lines :
    Return(<<"Found ", ToString(Len(items)), " DAGs:\n\n">> \o lines))))))

\* ", ".join(v): v must be a list of strings.
JoinIds(v) ==
    IF v.kind # "list" THEN Raise(Exc("TypeError", <<"can only join an iterable">>))
    ELSE IF \E i \in 1..Len(v.l) : v.l[i].kind # "str"
    THEN Raise(Exc("TypeError", <<"sequence item 0: expected str instance">>))
    ELSE Ok(Join([i \in 1..Len(v.l) |-> <<v.l[i].s>>], ", "))

\* Lines 376-378.
TaskLine(task) ==
    IF ~IsDict(task) THEN Raise(NotSubscriptable(task))
    ELSE IF "task_id" \notin DOMAIN task.o THEN Raise(KeyError("task_id"))
    ELSE Bind(JoinIds(DictGet(task.o, "downstream_task_ids", JList(<<>>))), LAMBDA ids :
         Ok(<<"- **">> \o Str(task.o["task_id"]) \o <<"**\n", "  - Type: ">>
            \o Field(task, "operator_name", "N/A") \o <<"\n", "  - Downstream: ">>
            \o ids \o <<"\n\n">>))

get_dag_tasks(args, got) ==
    Bind(Require(args, <<"dag_id">>), LAMBDA a :
    Bind(Await(ApiCall("GET", <<"dags/">> \o Str(a["dag_id"]) \o <<"/tasks">>, JNull, JNull),
               got, 1), LAMBDA r :
    Bind(Get(r, "tasks", JList(<<>>)), LAMBDA tasks :
    Bind(ItemsOf(tasks), LAMBDA items :
    Bind(ForEach(TaskLine, items), LAMBDA lines :
    Return(<<"Tasks in DAG '">> \o Str(a["dag_id"]) \o <<"' (">>
           \o <<ToString(Len(items)), " tasks):\n\n">> \o lines))))))

\* A trigger body that holds conf whenever the argument is a dict, empty or not.
TriggerBody_ConfEvenIfEmpty(conf, logical_date) ==
    (IF IsDict(conf) THEN [conf |-> conf] ELSE EmptyDict)
    @@ (IF Truthy(logical_date) THEN [logical_date |-> logical_date] ELSE EmptyDict)

\* The JSON body of the trigger request (lines 387-391).
TriggerBody(conf, logical_date) ==
    (IF Truthy(conf) THEN [conf |-> conf] ELSE EmptyDict)
    @@ (IF Truthy(logical_date) THEN [logical_date |-> logical_date] ELSE EmptyDict)

trigger_dag_run(args, got) ==
    Bind(Require(args, <<"dag_id">>), LAMBDA a :
    Bind(Await(ApiCall("POST", <<"dags/">> \o Str(a["dag_id"]) \o <<"/dagRuns">>, JNull,
                       JObj(TriggerBody(DictGet(a, "conf", JObj(EmptyDict)),
                                        DictGet(a, "logical_date", JNull)))),
               got, 1), LAMBDA r :
    Bind(Index(r, "dag_id"), LAMBDA dag_id :
    Bind(Index(r, "dag_run_id"), LAMBDA dag_run_id :
    Bind(Index(r, "state"), LAMBDA state :
    Return(<<":white_check_mark:", " DAG run triggered successfully!\n\n">>
           \o <<"- **DAG ID**: ">> \o Str(dag_id) \o <<"\n">>
           \o <<"- **Run ID**: ">> \o Str(dag_run_id) \o <<"\n">>
           \o <<"- **State**: ">> \o Str(state) \o <<"\n">>
           \o <<"- **Execution Date**: ">> \o Field(r, "execution_date", "N/A")
           \o <<"\n">>))))))

\* Line 418.
ClearedLine(ti) ==
    IF ~IsDict(ti) THEN Raise(NotSubscriptable(ti))
    ELSE IF "task_id" \notin DOMAIN ti.o THEN Raise(KeyError("task_id"))
    ELSE Ok(<<"- ">> \o Str(ti.o["task_id"]) \o <<" (Try: ">>
            \o Field(ti, "try_number", "N/A") \o <<")\n">>)

\* Lines 411-414.
ClearedHead(dry_run) ==
    IF Truthy(dry_run) THEN <<":mag:", " Dry run - Tasks that would be cleared:\n\n">>
                       ELSE <<":white_check_mark:", " DAG run cleared successfully!\n\n">>

clear_dag_run(args, got) ==
    Bind(Require(args, <<"dag_id", "dag_run_id">>), LAMBDA a :
    Bind(Await(ApiCall("POST",
                       <<"dags/">> \o Str(a["dag_id"]) \o <<"/dagRuns/">>
                           \o Str(a["dag_run_id"]) \o <<"/clear">>,
                       JNull, JObj([dry_run |-> DictGet(a, "dry_run", JBool(FALSE))])),
               got, 1), LAMBDA r :
    Bind(Get(r, "task_instances", JList(<<>>)), LAMBDA tis :
    Bind(IterOf(tis), LAMBDA items :
    Bind(ForEach(ClearedLine, items), LAMBDA lines :
    Return(ClearedHead(DictGet(a, "dry_run", JBool(FALSE))) \o lines))))))

set_dag_state(args, got) ==
    Bind(Require(args, <<"dag_id", "is_paused">>), LAMBDA a :
    Bind(Await(ApiCall("PATCH", <<"dags/">> \o Str(a["dag_id"]), JNull,
                       JObj([is_paused |-> a["is_paused"]])), got, 1), LAMBDA r :
    IF ~IsDict(r) THEN Raise(NoAttribute(r, "get"))
    ELSE Return(<<":white_check_mark:", " DAG '">> \o Str(a["dag_id"]) \o <<"' is now ">>
                \o (IF Truthy(a["is_paused"]) THEN <<":pause_button:", " PAUSED">>
                                              ELSE <<":arrow_forward:", " ACTIVE">>)
                \o <<"\n\n", "- **Description**: ">> \o Field(r, "description", "N/A")
                \o <<"\n", "- **Schedule**: ">> \o Field(r, "schedule_interval", "N/A")
                \o <<"\n">>)))

\* The marker table of get_dag_runs and, with "skipped" too, of
\* get_task_instances, applied to a lower-cased state.
EmojiOf(low, withSkipped) ==
    CASE low = "success" -> ":white_check_mark:"
      [] low = "failed" -> ":x:"
      [] low = "running" -> ":arrows_counterclockwise:"
      [] low = "queued" -> ":hourglass_flowing_sand:"
      [] low = "skipped" /\ withSkipped -> ":next_track_button:"
      [] OTHER -> ":question:"

\* {...}.get(item.get("state", "").lower(), question mark): lower is a method
\* of strings only.
StateEmoji(state, withSkipped) ==
    IF state.kind # "str" THEN Raise(NoAttribute(state, "lower"))
    ELSE Ok(EmojiOf(Lower(state.s), withSkipped))

\* Lines 451-461.
RunLine(run) ==
    IF ~IsDict(run) THEN Raise(NoAttribute(run, "get"))
    ELSE Bind(StateEmoji(DictGet(run.o, "state", JStr("")), FALSE), LAMBDA emoji :
         IF "dag_run_id" \notin DOMAIN run.o THEN Raise(KeyError("dag_run_id"))
         ELSE Ok(<<emoji, " **">> \o Str(run.o["dag_run_id"]) \o <<"**\n">>
                 \o <<"  - State: ">> \o Field(run, "state", "N/A") \o <<"\n">>
                 \o <<"  - Start: ">> \o Field(run, "start_date", "N/A") \o <<"\n">>
                 \o <<"  - End: ">> \o Field(run, "end_date", "N/A") \o <<"\n\n">>))

\* Lines 442-444.
GetDagRunsParams(a) ==
    IF Truthy(DictGet(a, "state", JNull))
    THEN [limit |-> DictGet(a, "limit", JInt(25)), state |-> a["state"]]
    ELSE [limit |-> DictGet(a, "limit", JInt(25))]

get_dag_runs(args, got) ==
    Bind(Require(args, <<"dag_id">>), LAMBDA a :
    Bind(Await(ApiCall("GET", <<"dags/">> \o Str(a["dag_id"]) \o <<"/dagRuns">>,
                       JObj(GetDagRunsParams(a)), JNull), got, 1), LAMBDA r :
    Bind(Get(r, "dag_runs", JList(<<>>)), LAMBDA runs :
    Bind(ItemsOf(runs), LAMBDA items :
    Bind(ForEach(RunLine, items), LAMBDA lines :
    Return(<<"DAG runs for '">> \o Str(a["dag_id"]) \o <<"' (">>
           \o <<ToString(Len(items)), " runs):\n\n">> \o lines))))))

\* Lines 474-485.
TaskInstanceLine(ti) ==
    IF ~IsDict(ti) THEN Raise(NoAttribute(ti, "get"))
    ELSE Bind(StateEmoji(DictGet(ti.o, "state", JStr("")), TRUE), LAMBDA emoji :
         IF "task_id" \notin DOMAIN ti.o THEN Raise(KeyError("task_id"))
         ELSE Ok(<<emoji, " **">> \o Str(ti.o["task_id"]) \o <<"**\n">>
                 \o <<"  - State: ">> \o Field(ti, "state", "N/A") \o <<"\n">>
                 \o <<"  - Try Number: ">> \o Field(ti, "try_number", "N/A") \o <<"\n">>
                 \o <<"  - Duration: ">> \o Field(ti, "duration", "N/A") \o <<"s\n\n">>))

get_task_instances(args, got) ==
    Bind(Require(args, <<"dag_id", "dag_run_id">>), LAMBDA a :
    Bind(Await(ApiCall("GET",
                       <<"dags/">> \o Str(a["dag_id"]) \o <<"/dagRuns/">>
                           \o Str(a["dag_run_id"]) \o <<"/taskInstances">>,
                       JNull, JNull), got, 1), LAMBDA r :
    Bind(Get(r, "task_instances", JList(<<>>)), LAMBDA tis :
    Bind(IterOf(tis), LAMBDA items :
    Bind(ForEach(TaskInstanceLine, items), LAMBDA lines :
    Return(<<"Task instances for '">> \o Str(a["dag_id"]) \o <<"' run '">>
           \o Str(a["dag_run_id"]) \o <<"':\n\n">> \o lines))))))

\* Line 497.
StateStatLine(state_stat) ==
    IF ~IsDict(state_stat) THEN Raise(NotSubscriptable(state_stat))
    ELSE IF "state" \notin DOMAIN state_stat.o THEN Raise(KeyError("state"))
    ELSE IF "count" \notin DOMAIN state_stat.o THEN Raise(KeyError("count"))
    ELSE Ok(<<"  - ">> \o Str(state_stat.o["state"]) \o <<": ">>
            \o Str(state_stat.o["count"]) \o <<"\n">>)

\* Lines 495-498.
DagStatLine(dag_stat) ==
    IF ~IsDict(dag_stat) THEN Raise(NotSubscriptable(dag_stat))
    ELSE IF "dag_id" \notin DOMAIN dag_stat.o THEN Raise(KeyError("dag_id"))
    ELSE Bind(IterOf(DictGet(dag_stat.o, "stats", JList(<<>>))), LAMBDA items :
         Bind(ForEach(StateStatLine, items), LAMBDA lines :
         Ok(<<"**">> \o Str(dag_stat.o["dag_id"]) \o <<"**:\n">> \o lines \o <<"\n">>)))

get_dag_stats(args, got) ==
    Bind(Await(ApiCall("GET", <<"dagStats">>, JNull, JNull), got, 1), LAMBDA r :
    Bind(Get(r, "dags", JList(<<>>)), LAMBDA stats :
    Bind(IterOf(stats), LAMBDA items :
    Bind(ForEach(DagStatLine, items), LAMBDA lines :
    Return(<<":bar_chart:", " DAG Statistics:\n\n">> \o lines)))))

\* log_content of lines 516-519: the content member, or str(result).
LogContent(logs) ==
    IF IsDict(logs) /\ "content" \in DOMAIN logs.o THEN logs.o["content"]
    ELSE JStr("str(result)")

\* The summary of the primary path of get_task_logs (lines 516-526), which
\* appends log_content to a string.
LogsSummary(task_id, try_number, logs) ==
    IF LogContent(logs).kind # "str" THEN Raise(CannotConcat(LogContent(logs)))
    ELSE Return(<<":memo:", " Logs for task '">> \o task_id \o <<"' (Try #">>
                \o try_number \o <<"):\n\n", "~~~\n">>
                \o (IF IsDict(logs) /\ "content" \in DOMAIN logs.o
                    THEN Str(logs.o["content"]) ELSE Str(logs))
                \o <<"\n~~~">>)

\* A fallback summary that leaves out the error of the primary path.
TaskInfoSummary_WithoutError(dag_id, dag_run_id, task_id, ti_result, e) ==
    IF ~IsDict(ti_result) THEN Raise(NoAttribute(ti_result, "get"))
    ELSE Return(<<":information_source:", " Task Instance Info for '">> \o task_id
                \o <<"':\n\n">>
                \o <<"- State: ">> \o Field(ti_result, "state", "N/A") \o <<"\n">>
                \o <<"- Try Number: ">> \o Field(ti_result, "try_number", "N/A") \o <<"\n">>
                \o <<"- Start Date: ">> \o Field(ti_result, "start_date", "N/A") \o <<"\n">>
                \o <<"- End Date: ">> \o Field(ti_result, "end_date", "N/A") \o <<"\n\n">>
                \o <<":warning:", " Note: Direct log retrieval failed. You may need to access logs through the Airflow UI at:\n">>
                \o <<AIRFLOW_BASE_URL, "/dags/">> \o dag_id \o <<"/grid?dag_run_id=">>
                \o dag_run_id \o <<"&task_id=">> \o task_id \o <<"\n">>)

\* The summary of the fallback path (lines 531-540), e being the exception
\* that the primary path raised.
TaskInfoSummary(dag_id, dag_run_id, task_id, ti_result, e) ==
    IF ~IsDict(ti_result) THEN Raise(NoAttribute(ti_result, "get"))
    ELSE Return(<<":information_source:", " Task Instance Info for '">> \o task_id
                \o <<"':\n\n">>
                \o <<"- State: ">> \o Field(ti_result, "state", "N/A") \o <<"\n">>
                \o <<"- Try Number: ">> \o Field(ti_result, "try_number", "N/A") \o <<"\n">>
                \o <<"- Start Date: ">> \o Field(ti_result, "start_date", "N/A") \o <<"\n">>
                \o <<"- End Date: ">> \o Field(ti_result, "end_date", "N/A") \o <<"\n\n">>
                \o <<":warning:", " Note: Direct log retrieval failed. You may need to access logs through the Airflow UI at:\n">>
                \o <<AIRFLOW_BASE_URL, "/dags/">> \o dag_id \o <<"/grid?dag_run_id=">>
                \o dag_run_id \o <<"&task_id=">> \o task_id \o <<"\n\n">>
                \o <<"Error: ">> \o e.msg)

\* The path of a task instance, which both requests of get_task_logs use.
InstancePath(dag_id, dag_run_id, task_id) ==
    <<"dags/">> \o dag_id \o <<"/dagRuns/">> \o dag_run_id \o <<"/taskInstances/">> \o task_id

\* get_task_logs catching the failure of its second request as well.
LogsOrTaskInfo_FallbackCaught(dag_id, dag_run_id, task_id, try_number, got) ==
    Catch(Bind(Await(ApiCall("GET",
                             InstancePath(dag_id, dag_run_id, task_id) \o <<"/logs/">>
                                 \o try_number,
                             JNull, JNull), got, 1),
               LAMBDA logs : LogsSummary(task_id, try_number, logs)),
          LAMBDA e :
               Catch(Bind(Await(ApiCall("GET", InstancePath(dag_id, dag_run_id, task_id),
                                        JNull, JNull), got, 2),
                          LAMBDA ti_result :
                              TaskInfoSummary(dag_id, dag_run_id, task_id, ti_result, e)),
                     LAMBDA e2 :
                         Return(<<":warning:", " No logs and no task instance info for '">>
                                \o task_id \o <<"'.\n\n", "Error: ">> \o e.msg)))

\* Lines 511-540: the try block, and its handler with the second request.
LogsOrTaskInfo(dag_id, dag_run_id, task_id, try_number, got) ==
    Catch(Bind(Await(ApiCall("GET",
                             InstancePath(dag_id, dag_run_id, task_id) \o <<"/logs/">>
                                 \o try_number,
                             JNull, JNull), got, 1),
               LAMBDA logs : LogsSummary(task_id, try_number, logs)),
          LAMBDA e :
               Bind(Await(ApiCall("GET", InstancePath(dag_id, dag_run_id, task_id),
                                  JNull, JNull), got, 2),
                    LAMBDA ti_result :
                        TaskInfoSummary(dag_id, dag_run_id, task_id, ti_result, e)))

\* get_task_logs reading task_id with arguments.get("task_id", "").
get_task_logs_OptionalTaskId(args, got) ==
    Bind(Require(args, <<"dag_id", "dag_run_id">>), LAMBDA a :
    LogsOrTaskInfo(Str(a["dag_id"]), Str(a["dag_run_id"]),
                   Str(DictGet(a, "task_id", JStr(""))),
                   Str(DictGet(a, "try_number", JInt(1))), got))

get_task_logs(args, got) ==
    Bind(Require(args, <<"dag_id", "dag_run_id", "task_id">>), LAMBDA a :
    LogsOrTaskInfo(Str(a["dag_id"]), Str(a["dag_run_id"]), Str(a["task_id"]),
                   Str(DictGet(a, "try_number", JInt(1))), got))

\* Lines 551-552.
ImportErrorLine(error) ==
    IF ~IsDict(error) THEN Raise(NoAttribute(error, "get"))
    ELSE Ok(<<"**">> \o Field(error, "filename", "Unknown file") \o <<"**:\n", "~~~\n">>
            \o Field(error, "stack_trace", "No error details") \o <<"\n~~~\n\n">>)

get_import_errors(args, got) ==
    Bind(Await(ApiCall("GET", <<"importErrors">>, JNull, JNull), got, 1), LAMBDA r :
    Bind(Get(r, "import_errors", JList(<<>>)), LAMBDA errors :
    IF ~Truthy(errors)
    THEN Return(<<":white_check_mark:", " No DAG import errors found!">>)
    ELSE Bind(ItemsOf(errors), LAMBDA items :
         Bind(ForEach(ImportErrorLine, items), LAMBDA lines :
         Return(<<":warning:", " Found ", ToString(Len(items)), " DAG import errors:\n\n">>
                \o lines)))))

\* Lines 564-567.
ConnectionLine(conn) ==
    IF ~IsDict(conn) THEN Raise(NotSubscriptable(conn))
    ELSE IF "connection_id" \notin DOMAIN conn.o THEN Raise(KeyError("connection_id"))
    ELSE Ok(<<"- **">> \o Str(conn.o["connection_id"]) \o <<"**\n">>
            \o <<"  - Type: ">> \o Field(conn, "conn_type", "N/A") \o <<"\n">>
            \o <<"  - Host: ">> \o Field(conn, "host", "N/A") \o <<"\n">>
            \o <<"  - Schema: ">> \o Field(conn, "schema", "N/A") \o <<"\n\n">>)

get_connections(args, got) ==
    Bind(Optional(args), LAMBDA a :
    Bind(Await(ApiCall("GET", <<"connections">>,
                       JObj([limit |-> DictGet(a, "limit", JInt(100))]), JNull), got, 1),
         LAMBDA r :
    Bind(Get(r, "connections", JList(<<>>)), LAMBDA conns :
    Bind(ItemsOf(conns), LAMBDA items :
    Bind(ForEach(ConnectionLine, items), LAMBDA lines :
    Return(<<":electric_plug:", " Airflow Connections (", ToString(Len(items)),
             " connections):\n\n">> \o lines))))))

get_connection(args, got) ==
    Bind(Require(args, <<"connection_id">>), LAMBDA a :
    Bind(Await(ApiCall("GET", <<"connections/">> \o Str(a["connection_id"]), JNull, JNull),
               got, 1), LAMBDA r :
    IF ~IsDict(r) THEN Raise(NoAttribute(r, "get"))
    ELSE Return(<<":electric_plug:", " Connection Details: **">> \o Str(a["connection_id"])
                \o <<"**\n\n">>
                \o <<"- **Type**: ">> \o Field(r, "conn_type", "N/A") \o <<"\n">>
                \o <<"- **Host**: ">> \o Field(r, "host", "N/A") \o <<"\n">>
                \o <<"- **Schema**: ">> \o Field(r, "schema", "N/A") \o <<"\n">>
                \o <<"- **Login**: ">> \o Field(r, "login", "N/A") \o <<"\n">>
                \o <<"- **Port**: ">> \o Field(r, "port", "N/A") \o <<"\n">>
                \o <<"- **Extra**: ">> \o Field(r, "extra", "N/A") \o <<"\n">>)))

\* The summary of the try block of test_connection (lines 592-598).
AccessibleSummary(connection_id, conn) ==
    IF ~IsDict(conn) THEN Raise(NoAttribute(conn, "get"))
    ELSE Return(<<":white_check_mark:", " Connection '">> \o connection_id
                \o <<"' is accessible!\n\n">>
                \o <<"- **Type**: ">> \o Field(conn, "conn_type", "N/A") \o <<"\n">>
                \o <<"- **Host**: ">> \o Field(conn, "host", "N/A") \o <<"\n\n">>
                \o <<":information_source:", " Note: This tests API accessibility. To test actual connectivity to the external service, ">>
                \o <<"you'll need to trigger a DAG that uses this connection.\n">>)

\* The text of the handler of test_connection (lines 600-601).
TestFailedText(connection_id, e) ==
    <<":x:", " Connection test failed for '">> \o connection_id \o <<"':\n\n">>
    \o <<"Error: ">> \o e.msg \o <<"\n">>

\* test_connection asking the upstream to test the connection.
test_connection_ViaTestEndpoint(args, got) ==
    Bind(Require(args, <<"connection_id">>), LAMBDA a :
    Catch(Bind(Await(ApiCall("POST", <<"connections/", "test">>, JNull,
                             JObj([connection_id |-> a["connection_id"]])), got, 1),
               LAMBDA r : AccessibleSummary(Str(a["connection_id"]), r)),
          LAMBDA e : Return(TestFailedText(Str(a["connection_id"]), e))))

test_connection(args, got) ==
    Bind(Require(args, <<"connection_id">>), LAMBDA a :
    Catch(Bind(Await(ApiCall("GET", <<"connections/">> \o Str(a["connection_id"]),
                             JNull, JNull), got, 1),
               LAMBDA r : AccessibleSummary(Str(a["connection_id"]), r)),
          LAMBDA e : Return(TestFailedText(Str(a["connection_id"]), e))))

\* "ok" or "fail" marker of a component status (lines 617-618).
HealthEmoji(status) == IF status = JStr("healthy") THEN ":white_check_mark:" ELSE ":x:"

\* Lines 614-624, on the two component dicts.
HealthSummary(metadatabase, scheduler) ==
    IF ~IsDict(metadatabase) THEN Raise(NoAttribute(metadatabase, "get"))
    ELSE IF ~IsDict(scheduler) THEN Raise(NoAttribute(scheduler, "get"))
    ELSE Return(<<":hospital:", " Airflow Health Status:\n\n">>
                \o <<HealthEmoji(DictGet(metadatabase.o, "status", JStr("unknown"))),
                     " **Metadatabase**: ">>
                \o Field(metadatabase, "status", "unknown") \o <<"\n">>
                \o <<HealthEmoji(DictGet(scheduler.o, "status", JStr("unknown"))),
                     " **Scheduler**: ">>
                \o Field(scheduler, "status", "unknown") \o <<"\n">>
                \o (IF Truthy(DictGet(scheduler.o, "latest_scheduler_heartbeat", JNull))
                    THEN <<"\n", ":date:", " Latest Scheduler Heartbeat: ">>
                         \o Str(scheduler.o["latest_scheduler_heartbeat"]) \o <<"\n">>
                    ELSE <<>>))

check_health(args, got) ==
    Bind(Await(ApiCall("GET", <<"health">>, JNull, JNull), got, 1), LAMBDA r :
    Bind(Get(r, "metadatabase", JObj(EmptyDict)), LAMBDA metadatabase :
    Bind(Get(r, "scheduler", JObj(EmptyDict)), LAMBDA scheduler :
    HealthSummary(metadatabase, scheduler))))

-----------------------------------------------------------------------------
(* The dispatcher *)

\* The if/elif chain of the try block of call_tool (lines 348-629).
Dispatch(n, args, got) ==
    CASE n = "get_dags" -> get_dags(args, got)
      [] n = "get_dag_tasks" -> get_dag_tasks(args, got)
      [] n = "trigger_dag_run" -> trigger_dag_run(args, got)
      [] n = "clear_dag_run" -> clear_dag_run(args, got)
      [] n = "set_dag_state" -> set_dag_state(args, got)
      [] n = "get_dag_runs" -> get_dag_runs(args, got)
      [] n = "get_task_instances" -> get_task_instances(args, got)
      [] n = "get_dag_stats" -> get_dag_stats(args, got)
      [] n = "get_task_logs" -> get_task_logs(args, got)
      [] n = "get_import_errors" -> get_import_errors(args, got)
      [] n = "get_connections" -> get_connections(args, got)
      [] n = "get_connection" -> get_connection(args, got)
      [] n = "test_connection" -> test_connection(args, got)
      [] n = "check_health" -> check_health(args, got)
      [] OTHER -> Raise(Exc("ValueError", <<"Unknown tool: ", n>>))

\* An outer handler whose text has no failure marker.
ErrorText_WithoutMarker(n, e) == <<"Error executing '", n, "':\n\n">> \o e.msg

\* The text of the outer handler (line 632).
ErrorText(n, e) == <<":x:", " Error executing '", n, "':\n\n">> \o e.msg

\* call_tool catching the errors of make_api_request only.
call_tool_CatchesApiErrorsOnly(n, args, got) ==
    IF Dispatch(n, args, got).kind = "raise" /\ Dispatch(n, args, got).exc.type = "Exception"
    THEN Return(ErrorText(n, Dispatch(n, args, got).exc))
    ELSE Dispatch(n, args, got)

\* call_tool, given the results of the API calls it has awaited so far: the
\* try block, and the outer "except Exception" around it (lines 631-633).
call_tool(n, args, got) ==
    Catch(Dispatch(n, args, got), LAMBDA e : Return(ErrorText(n, e)))

-----------------------------------------------------------------------------
(* The callers: tool names and arguments that the protocol loop delivers *)

RegisteredNames == {list_tools[i].name : i \in 1..Len(list_tools)}

ToolNames == RegisteredNames \cup {"nonexistent_tool"}

SchemaOf(n) == (CHOOSE i \in 1..Len(list_tools) : list_tools[i].name = n)

\* The values that a caller gives a parameter.
ArgValues(k) ==
    CASE k = "dag_id" -> {JStr("etl")}
      [] k = "dag_run_id" -> {JStr("run_1")}
      [] k = "task_id" -> {JStr("load")}
      [] k = "connection_id" -> {JStr("pg")}
      [] k = "conf" -> {JObj(EmptyDict), JObj([key |-> JStr("v")])}
      [] k = "logical_date" -> {JStr(""), JStr("2024-01-01T00:00:00Z")}
      [] k = "dry_run" -> {JBool(TRUE), JBool(FALSE)}
      [] k = "is_paused" -> {JBool(TRUE), JBool(FALSE)}
      [] k = "only_active" -> {JBool(TRUE), JBool(FALSE)}
      [] k = "state" -> {JStr(""), JStr("failed")}
      [] k = "limit" -> {JInt(5)}
      [] k = "try_number" -> {JInt(2)}

\* The dicts over some of the keys, each key with one of its values.
DictsOver(keys) ==
    UNION { {f \in [S -> UNION {ArgValues(k) : k \in S}] : \A k \in S : f[k] \in ArgValues(k)}
            : S \in SUBSET keys }

\* The arguments of a call of tool n: any dict over the declared parameters
\* of n (none, for a name that is not registered), or no dict at all.
ArgumentsFor(n) ==
    {JNull} \cup
    {JObj(f) : f \in DictsOver(IF n \in RegisteredNames
                               THEN DOMAIN list_tools[SchemaOf(n)].inputSchema.properties
                               ELSE {})}

-----------------------------------------------------------------------------
(* The upstream: what the Airflow API may answer to a request *)

\* The lists of at most MaxItems items of S.
ListsOf(S) == UNION {[1..n -> S] : n \in 0..MaxItems}

\* A payload {key: [items]}, and the payloads without the list or with null.
ListPayloads(key, S) ==
    {JObj(key :> JList(l)) : l \in ListsOf(S)} \cup {JObj(EmptyDict), JObj(key :> JNull)}

DagItems ==
    { JObj([dag_id |-> JStr("etl"), is_paused |-> JBool(TRUE),
            description |-> JStr("nightly"), schedule_interval |-> JStr("@daily")]),
      JObj([dag_id |-> JStr("adhoc"), is_paused |-> JBool(FALSE)]),
      JObj([description |-> JStr("no id")]) }

TaskItems ==
    { JObj([task_id |-> JStr("extract"), operator_name |-> JStr("PythonOperator"),
            downstream_task_ids |-> JList(<<JStr("load"), JStr("notify")>>)]),
      JObj([task_id |-> JStr("load")]),
      JObj([operator_name |-> JStr("BashOperator")]) }

ClearedItems ==
    { JObj([task_id |-> JStr("load"), try_number |-> JInt(2)]),
      JObj([task_id |-> JStr("load")]),
      JObj([try_number |-> JInt(1)]) }

RunItems ==
    { JObj([dag_run_id |-> JStr("run_1"), state |-> JStr("success"),
            start_date |-> JStr("2024-01-01"), end_date |-> JStr("2024-01-02")]),
      JObj([dag_run_id |-> JStr("run_2"), state |-> JStr("FAILED")]),
      JObj([dag_run_id |-> JStr("run_3"), state |-> JStr("deferred")]),
      JObj([dag_run_id |-> JStr("run_4")]),
      JObj([dag_run_id |-> JStr("run_5"), state |-> JNull]),
      JObj([state |-> JStr("queued")]) }

TaskInstanceItems ==
    { JObj([task_id |-> JStr("load"), state |-> JStr("Running"),
            try_number |-> JInt(1), duration |-> JInt(12)]),
      JObj([task_id |-> JStr("notify"), state |-> JStr("skipped")]),
      JObj([task_id |-> JStr("extract"), state |-> JStr("up_for_retry")]),
      JObj([task_id |-> JStr("wait")]),
      JObj([task_id |-> JStr("sense"), state |-> JNull]),
      JObj([state |-> JStr("failed")]) }

DagStatItems ==
    { JObj([dag_id |-> JStr("etl"),
            stats |-> JList(<<JObj([state |-> JStr("success"), count |-> JInt(3)])>>)]),
      JObj([dag_id |-> JStr("adhoc")]),
      JObj([dag_id |-> JStr("etl"), stats |-> JList(<<JObj([state |-> JStr("failed")])>>)]),
      JObj([stats |-> JList(<<>>)]) }

ImportErrorItems ==
    { JObj([filename |-> JStr("dags/etl.py"), stack_trace |-> JStr("SyntaxError")]),
      JObj(EmptyDict) }

ConnectionItems ==
    { JObj([connection_id |-> JStr("pg"), conn_type |-> JStr("postgres"),
            host |-> JStr("db"), schema |-> JStr("public")]),
      JObj([connection_id |-> JStr("s3")]),
      JObj([conn_type |-> JStr("http")]) }

DagRunObjects ==
    { JObj([dag_id |-> JStr("etl"), dag_run_id |-> JStr("manual_1"),
            state |-> JStr("queued"), execution_date |-> JStr("2024-01-01")]),
      JObj([dag_id |-> JStr("etl"), dag_run_id |-> JStr("manual_1"),
            state |-> JStr("queued")]),
      JObj([dag_id |-> JStr("etl"), dag_run_id |-> JStr("manual_1")]) }

DagObjects ==
    { JObj([dag_id |-> JStr("etl"), is_paused |-> JBool(TRUE),
            description |-> JStr("nightly"), schedule_interval |-> JStr("@daily")]),
      JObj([dag_id |-> JStr("etl"), is_paused |-> JBool(FALSE)]) }

\* Logs: a text, the structured list of Airflow 3, or no content member.
LogObjects ==
    { JObj([content |-> JStr("INFO - done")]),
      JObj([content |-> JList(<<JStr("INFO - done")>>)]),
      JObj(EmptyDict) }

TaskInstanceObjects ==
    { JObj([task_id |-> JStr("load"), state |-> JStr("failed"), try_number |-> JInt(2),
            start_date |-> JStr("2024-01-01"), end_date |-> JStr("2024-01-02")]),
      JObj([task_id |-> JStr("load"), state |-> JNull]),
      JObj([task_id |-> JStr("load")]) }

ConnectionObjects ==
    { JObj([connection_id |-> JStr("pg"), conn_type |-> JStr("postgres"),
            host |-> JStr("db"), schema |-> JStr("public"), login |-> JStr("app"),
            port |-> JInt(5432), extra |-> JNull]),
      JObj([connection_id |-> JStr("pg")]) }

HealthObjects ==
    { JObj([metadatabase |-> JObj([status |-> JStr("healthy")]),
            scheduler |-> JObj([status |-> JStr("healthy"),
                                latest_scheduler_heartbeat |-> JStr("2024-01-01T00:00:00")])]),
      JObj([metadatabase |-> JObj([status |-> JStr("unhealthy")]),
            scheduler |-> JObj([status |-> JStr("healthy")])]),
      JObj([metadatabase |-> JNull]),
      JObj(EmptyDict) }

\* The JSON values that the endpoint of a request answers with on success.
Payloads(req) ==
    LET e == req.endpoint
        last == e[Len(e)]
    IN CASE e = <<"dags">> -> ListPayloads("dags", DagItems)
         [] last = "/tasks" -> ListPayloads("tasks", TaskItems)
         [] last = "/dagRuns" /\ req.method = "POST" -> DagRunObjects
         [] last = "/dagRuns" /\ req.method = "GET" -> ListPayloads("dag_runs", RunItems)
         [] last = "/clear" -> ListPayloads("task_instances", ClearedItems)
         [] last = "/taskInstances" -> ListPayloads("task_instances", TaskInstanceItems)
         [] e = <<"dagStats">> -> ListPayloads("dags", DagStatItems)
         [] e = <<"importErrors">> -> ListPayloads("import_errors", ImportErrorItems)
         [] e = <<"connections">> -> ListPayloads("connections", ConnectionItems)
         [] e = <<"health">> -> HealthObjects
         [] Len(e) = 2 /\ e[1] = "connections/" -> ConnectionObjects
         [] Len(e) = 2 /\ e[1] = "dags/" -> DagObjects
         [] Len(e) > 2 /\ e[Len(e) - 1] = "/logs/" -> LogObjects
         [] Len(e) > 2 /\ e[Len(e) - 1] = "/taskInstances/" -> TaskInstanceObjects
         [] OTHER -> {}

\* The failures of a request: error statuses with a JSON detail, with JSON
\* without one, with JSON that is no object and with a body that is no JSON;
\* a failure to connect; and a 2xx body that is no JSON.
Failures ==
    { HttpResponse(404, JObj([detail |-> JStr("DAG not found")])),
      HttpResponse(403, JObj([detail |-> JStr("Forbidden")])),
      HttpResponse(500, JObj([title |-> JStr("Internal Server Error")])),
      HttpResponse(400, JList(<<JStr("bad request")>>)),
      RawResponse(502, "<html>Bad Gateway</html>"),
      NetworkError("All connection attempts failed"),
      RawResponse(200, "<html>Sign in</html>") }

\* All that the upstream may do with a request; a 2xx JSON body need not be
\* an object.
Upstream(req) ==
    Failures \cup {HttpResponse(200, v) : v \in Payloads(req) \cup {JList(<<>>)}}

-----------------------------------------------------------------------------
(* Start of the process: main and auto_update_check (lines 636-712) *)

\* The values of the environment variable GIT_AUTO_UPDATE: unset, or a string.
EnvValues ==
    {JNull, JStr("true"), JStr("false"), JStr("True"), JStr("TRUE"), JStr("yes"), JStr("1"),
     JStr("")}

\* The outcomes of subprocess.run: the command exited, or run raised.
Exited(returncode, stdout, stderr) ==
    [kind |-> "exited", returncode |-> returncode, stdout |-> stdout, stderr |-> stderr]
Raised(type, msg) == [kind |-> "raised", exc |-> Exc(type, msg)]

\* What may keep a command from exiting: the timeout of run, no git
\* executable, or another error of the operating system.
RunFailures(cmd, timeout) ==
    { Raised("TimeoutExpired",
             <<"Command '">> \o cmd \o <<"' timed out after ", timeout, " seconds">>),
      Raised("FileNotFoundError", <<"[Errno 2] No such file or directory: 'git'">>),
      Raised("PermissionError", <<"[Errno 13] Permission denied: 'git'">>) }

\* The captured stderr of git fetch is bytes, which need not be UTF-8.
Bytes(text) == [valid |-> TRUE, text |-> text]
UndecodableBytes == [valid |-> FALSE, text |-> <<>>]

FetchCommand == <<"git", "fetch">>
StatusCommand == <<"git", "status", "-uno", "-sb">>
PullCommand == <<"git", "pull", "--ff-only">>

FetchOutcomes ==
    { Exited(0, Bytes(<<>>), Bytes(<<>>)),
      Exited(1, Bytes(<<>>), Bytes(<<"fatal: unable to access the remote">>)),
      Exited(128, Bytes(<<>>), Bytes(<<"fatal: not a git repository">>)),
      Exited(128, Bytes(<<>>), UndecodableBytes) }
    \cup RunFailures(FetchCommand, "10")

\* The branch line that git status -sb prints, in fragments.
StatusOutcomes ==
    { Exited(0, <<"## main...origin/main">>, <<>>),
      Exited(0, <<"## main...origin/main [", "behind", " 2]">>, <<>>),
      Exited(0, <<"## main...origin/main [", "ahead 1, ", "behind", " 3]">>, <<>>),
      Exited(0, <<"## main...origin/main [", "ahead 1]">>, <<>>),
      Exited(0, <<"## fix/", "behind", "-schedule...origin/fix/", "behind", "-schedule">>, <<>>),
      Exited(0, <<"## dev...origin/dev [", "behind", " 1]">>, <<>>),
      Exited(0, <<"## main">>, <<>>),
      Exited(0, <<"## HEAD (no branch)">>, <<>>),
      Exited(128, <<>>, <<"fatal: not a git repository">>),
      Exited(1, <<>>, <<"error: unknown option">>) }
    \cup RunFailures(StatusCommand, "5")

PullOutcomes ==
    { Exited(0, <<"Fast-forward">>, <<>>),
      Exited(0, <<"Already up to date.">>, <<>>),
      Exited(128, <<>>, <<"fatal: Not possible to fast-forward, aborting.">>),
      Exited(1, <<>>, <<"error: Your local changes would be overwritten by merge.">>) }
    \cup RunFailures(PullCommand, "30")

\* "behind" in result.stdout.lower() (line 671).
Behind(stdout) == \E i \in 1..Len(stdout) : Lower(stdout[i]) = "behind"

\* The except clauses of auto_update_check (lines 690-696): what they print
\* for an exception, and whether one of them catches it.
\* auto_update_check without its last except clause.
UpdateCaught_NamedOnly(e) == e.type \in {"TimeoutExpired", "FileNotFoundError"}

UpdateCaught(e) == e.type \in {"TimeoutExpired", "FileNotFoundError"} \cup
                             ExceptionTypes \cup {"PermissionError", "UnicodeDecodeError"}
UpdateExcept(e) ==
    IF e.type = "TimeoutExpired" THEN <<":warning:", "  Update check timed out">>
    ELSE IF e.type = "FileNotFoundError"
    THEN <<":warning:", "  Git not found - skipping auto-update">>
    ELSE <<":warning:", "  Auto-update check failed: ">> \o e.msg

\* result.stderr.decode() of line 654.
Decode(bytes) ==
    IF bytes.valid THEN Ok(bytes.text)
    ELSE Raise(Exc("UnicodeDecodeError",
                   <<"'utf-8' codec can't decode byte 0xff in position 0: invalid start byte">>))

-----------------------------------------------------------------------------
(* State machine *)

NoTools == <<>>

Init ==
    /\ pc = "idle"
    /\ name = ""
    /\ arguments = JNull
    /\ sent = <<>>
    /\ answers = <<>>
    /\ replies = <<>>
    /\ result = <<>>
    /\ escaped = <<>>
    /\ listed = NoTools
    /\ listedBefore = NoTools
    /\ env = JNull
    /\ mainpc = "serving"
    /\ ran = <<>>
    /\ printed = <<<<"checking the update..">>,
                   <<"GIT_AUTO_UPDATE is false, skipping the update.">>,
                   <<"the server is running..">>>>

TextContent(text) == [type |-> "text", text |-> text]

\* The coroutine has run to its next await, its return or its raise.
Advance(out) ==
    CASE out.kind = "request" ->
            /\ pc' = "awaiting"
            /\ sent' = Append(sent, out.req)
            /\ result' = <<>>
            /\ escaped' = <<>>
      [] out.kind = "return" ->
            /\ pc' = "done"
            /\ UNCHANGED sent
            /\ result' = <<TextContent(out.text)>>
            /\ escaped' = <<>>
      [] out.kind = "raise" ->
            /\ pc' = "done"
            /\ UNCHANGED sent
            /\ result' = <<>>
            /\ escaped' = <<out.exc>>

\* The coroutine of a new call has run to its first await or to its end.
Start(out) ==
    CASE out.kind = "request" ->
            /\ pc' = "awaiting"
            /\ sent' = <<out.req>>
            /\ result' = <<>>
            /\ escaped' = <<>>
      [] out.kind = "return" ->
            /\ pc' = "done"
            /\ sent' = <<>>
            /\ result' = <<TextContent(out.text)>>
            /\ escaped' = <<>>
      [] out.kind = "raise" ->
            /\ pc' = "done"
            /\ sent' = <<>>
            /\ result' = <<>>
            /\ escaped' = <<out.exc>>

\* The protocol loop calls call_tool(n, a): it runs up to its first await.
Invoke(n, a) ==
    /\ pc \in {"idle", "done"}
    /\ name' = n
    /\ arguments' = a
    /\ answers' = <<>>
    /\ replies' = <<>>
    /\ Start(call_tool(n, a, <<>>))
    /\ UNCHANGED <<listed, listedBefore>>
    /\ UNCHANGED startupVars

\* The upstream answers the request in flight: make_api_request ends
\* and call_tool runs on, to its next await or to its end.
Respond ==
    /\ pc = "awaiting"
    /\ \E o \in Upstream(sent[Len(sent)]) :
          /\ answers' = Append(answers, o)
          /\ replies' = Append(replies, make_api_request(o))
          /\ Advance(call_tool(name, arguments, replies'))
    /\ UNCHANGED <<name, arguments, listed, listedBefore>>
    /\ UNCHANGED startupVars

\* The protocol loop calls list_tools.
ListTools ==
    /\ listedBefore' = listed
    /\ listed' = list_tools
    /\ UNCHANGED <<pc, name, arguments, sent, answers, replies, result, escaped>>
    /\ UNCHANGED startupVars

Next ==
    \/ \E n \in ToolNames : \E a \in ArgumentsFor(n) : Invoke(n, a)
    \/ Respond
    \/ ListTools

Spec == Init /\ [][Next]_vars

-----------------------------------------------------------------------------
(* State machine of the start of the process *)

\* The process has been started: nothing has run, the server serves nothing.
StartupInit ==
    /\ pc = "idle"
    /\ name = ""
    /\ arguments = JNull
    /\ sent = <<>>
    /\ answers = <<>>
    /\ replies = <<>>
    /\ result = <<>>
    /\ escaped = <<>>
    /\ listed = NoTools
    /\ listedBefore = NoTools
    /\ env \in EnvValues
    /\ mainpc = "start"
    /\ ran = <<>>
    /\ printed = <<>>

\* An exception inside the try block of auto_update_check: an except clause
\* prints and the function returns, or the exception leaves the function
\* and main.
UpdateRaises(e) ==
    IF UpdateCaught(e)
    THEN mainpc' = "updated" /\ printed' = Append(printed, UpdateExcept(e))
    ELSE mainpc' = "crashed" /\ UNCHANGED printed

\* main calls auto_update_check, which returns at once unless
\* GIT_AUTO_UPDATE is "true" (lines 702-704 and 638-640).
CallUpdateCheck ==
    /\ mainpc = "start"
    /\ IF env # JStr("true")
       THEN /\ mainpc' = "updated"
            /\ printed' = <<<<"checking the update..">>,
                            <<"GIT_AUTO_UPDATE is false, skipping the update.">>>>
       ELSE /\ mainpc' = "fetch"
            /\ printed' = <<<<"checking the update..">>>>
    /\ UNCHANGED <<env, ran>>
    /\ UNCHANGED serverVars

\* git fetch has ended (lines 646-655).
GitFetch ==
    /\ mainpc = "fetch"
    /\ \E o \in FetchOutcomes :
          /\ ran' = Append(ran, [cmd |-> FetchCommand, outcome |-> o])
          /\ IF o.kind = "raised" THEN UpdateRaises(o.exc)
             ELSE IF o.returncode # 0
             THEN IF Decode(o.stderr).kind = "raise" THEN UpdateRaises(Decode(o.stderr).exc)
                  ELSE /\ mainpc' = "updated"
                       /\ printed' = Append(printed, <<"Warning: git fetch failed: ">>
                                                      \o Decode(o.stderr).value)
             ELSE mainpc' = "status" /\ UNCHANGED printed
    /\ UNCHANGED env
    /\ UNCHANGED serverVars

\* git status has ended (lines 658-688).
GitStatus ==
    /\ mainpc = "status"
    /\ \E o \in StatusOutcomes :
          /\ ran' = Append(ran, [cmd |-> StatusCommand, outcome |-> o])
          /\ IF o.kind = "raised" THEN UpdateRaises(o.exc)
             ELSE IF o.returncode # 0
             THEN /\ mainpc' = "updated"
                  /\ printed' = Append(printed, <<"Warning: git status check failed">>)
             ELSE IF Behind(o.stdout)
             THEN /\ mainpc' = "pull"
                  /\ printed' = Append(printed, <<":inbox_tray:",
                                                  " Update available, pulling latest version...">>)
             ELSE /\ mainpc' = "updated"
                  /\ printed' = Append(printed, <<":white_check_mark:", " Already up to date">>)
    /\ UNCHANGED env
    /\ UNCHANGED serverVars

\* git pull --ff-only has ended (lines 674-686).
GitPull ==
    /\ mainpc = "pull"
    /\ \E o \in PullOutcomes :
          /\ ran' = Append(ran, [cmd |-> PullCommand, outcome |-> o])
          /\ IF o.kind = "raised" THEN UpdateRaises(o.exc)
             ELSE IF o.returncode = 0
             THEN /\ mainpc' = "updated"
                  /\ printed' = printed \o
                        <<<<":white_check_mark:", " Successfully updated to latest version!">>,
                          <<":warning:", "  Please restart Claude Desktop to use the new version">>>>
             ELSE /\ mainpc' = "updated"
                  /\ printed' = Append(printed, <<":x:", " Update failed: ">> \o o.stderr)
    /\ UNCHANGED env
    /\ UNCHANGED serverVars

\* auto_update_check has returned: main starts the server (lines 706-712).
StartServer ==
    /\ mainpc = "updated"
    /\ mainpc' = "serving"
    /\ printed' = Append(printed, <<"the server is running..">>)
    /\ UNCHANGED <<env, ran>>
    /\ UNCHANGED serverVars

StartupNext ==
    \/ CallUpdateCheck
    \/ GitFetch
    \/ GitStatus
    \/ GitPull
    \/ StartServer

\* main is sequential code and every run of git has a timeout, so a step
\* that can be taken is taken.
StartupSpec == StartupInit /\ [][StartupNext]_vars /\ WF_vars(StartupNext)

-----------------------------------------------------------------------------
(* Vocabulary of the properties *)

Done == pc = "done"

\* The text of the one block that the call returned.
Text == result[1].text

\* A result that describes an error begins with the cross mark.
ErrorShaped(t) == Len(t) > 0 /\ t[1] = ":x:"

\* The first fragments of the summaries that the handlers return.
SummaryHeads ==
    {"Found ", "Tasks in DAG '", ":white_check_mark:", ":mag:", "DAG runs for '",
     "Task instances for '", ":bar_chart:", ":memo:", ":information_source:", ":warning:",
     ":electric_plug:", ":hospital:"}

\* The i-th API call of the invocation failed / succeeded.
Failed(i) == i <= Len(replies) /\ replies[i].kind = "raise"
Succeeded(i) == i <= Len(replies) /\ replies[i].kind = "ok"

\* The required list of a schema; a schema without one requires nothing.
RequiredOf(schema) ==
    IF "required" \in DOMAIN schema
    THEN {schema.required[i] : i \in 1..Len(schema.required)}
    ELSE {}

\* The parameters that the registry requires of tool n.
RequiredParams(n) ==
    IF n \in RegisteredNames THEN RequiredOf(list_tools[SchemaOf(n)].inputSchema) ELSE {}

\* The arguments lack a required parameter of the tool.
LacksRequired ==
    \/ ~IsDict(arguments) /\ RequiredParams(name) # {}
    \/ IsDict(arguments) /\ ~(RequiredParams(name) \subseteq DOMAIN arguments.o)

-----------------------------------------------------------------------------
(* C1 *)

\* C1: whatever the tool name, the arguments and the outcomes of the API
\* calls, a call of call_tool that has ended raised nothing and returned
\* exactly one text block, which begins as an error message or as one of the
\* summaries; until it ends there is no result at all.
C1_AlwaysOneTextBlock ==
    /\ Done => /\ escaped = <<>>
               /\ Len(result) = 1
               /\ result[1].type = "text"
               /\ ErrorShaped(Text) \/ Text[1] \in SummaryHeads
    /\ pc = "awaiting" => result = <<>> /\ escaped = <<>>

\* Both requests of get_task_logs failed below HTTP, and the call still
\* returned one block.
C1_Witness ==
    /\ Done /\ name = "get_task_logs" /\ Len(answers) = 2
    /\ answers[1].kind = "network_error" /\ answers[2].kind = "network_error"
    /\ Len(result) = 1

(* C2 *)

UnknownToolText == \E i \in 1..Len(Text) : Text[i] = "Unknown tool: "

\* C2: a call that has ended returned an error text with "Unknown tool",
\* having issued no request, exactly when its name is none of those that
\* list_tools returns; so every listed name reaches a handler.
C2_UnknownToolIffUnregistered ==
    Done /\ Len(result) = 1 =>
        ((ErrorShaped(Text) /\ UnknownToolText /\ sent = <<>>) <=> name \notin RegisteredNames)

C2_Witness ==
    /\ Done /\ name = "nonexistent_tool" /\ arguments = JObj(EmptyDict)
    /\ Len(result) = 1 /\ UnknownToolText /\ sent = <<>>

(* C3 *)

\* C3: a call of a tool with required parameters whose arguments lack one of
\* them never has a request in flight, and ends with an error text, nothing
\* raised and no request issued.
C3_MissingRequiredIsErrorResult ==
    LacksRequired =>
        /\ pc # "awaiting"
        /\ Done => /\ escaped = <<>>
                   /\ Len(result) = 1
                   /\ ErrorShaped(Text)
                   /\ sent = <<>>

\* get_task_logs without its third required parameter.
C3_Witness ==
    /\ Done /\ name = "get_task_logs"
    /\ IsDict(arguments) /\ DOMAIN arguments.o = {"dag_id", "dag_run_id"}
    /\ Len(result) = 1 /\ Text = ErrorText("get_task_logs", KeyError("task_id"))

(* C4 *)

\* The upstream answered request i with a status outside 2xx and a JSON
\* object that has a "detail" member.
DetailFailure(i) ==
    /\ answers[i].kind = "response" /\ ~IsSuccess(answers[i].status)
    /\ answers[i].parses /\ IsDict(answers[i].value)
    /\ "detail" \in DOMAIN answers[i].value.o

\* Every request of the invocation got the same such answer.
AllAnsweredWithDetail ==
    /\ answers # <<>>
    /\ \A i \in 1..Len(answers) : DetailFailure(i) /\ answers[i] = answers[1]

\* C4: for every tool, a call that has ended, all of whose requests the
\* upstream answered with a non-2xx status s and a JSON body {"detail": d},
\* returned an error text that contains both s and d.
C4_StatusAndDetailReported ==
    Done /\ AllAnsweredWithDetail =>
        /\ Len(result) = 1
        /\ ErrorShaped(Text)
        /\ Contains(Text, <<ToString(answers[1].status)>>)
        /\ Contains(Text, Str(answers[1].value.o["detail"]))

\* test_connection, whose own handler reports the failure, after a 404.
C4_Witness ==
    /\ Done /\ name = "test_connection" /\ AllAnsweredWithDetail
    /\ answers[1].status = 404
    /\ Len(result) = 1 /\ Contains(Text, <<"404", "): ", "DAG not found">>)

(* C5 *)

\* The first request of get_task_logs failed and the second succeeded with
\* a task instance, that is a JSON object.
FallbackSucceeded ==
    /\ name = "get_task_logs" /\ Len(replies) = 2
    /\ Failed(1) /\ Succeeded(2) /\ IsDict(replies[2].value)

\* The grid view of the task instance in the web UI.
GridUrl ==
    <<AIRFLOW_BASE_URL, "/dags/">> \o Str(arguments.o["dag_id"])
    \o <<"/grid?dag_run_id=">> \o Str(arguments.o["dag_run_id"])
    \o <<"&task_id=">> \o Str(arguments.o["task_id"])

\* C5: when the log request of get_task_logs failed, for whatever reason,
\* and the task-instance request succeeded, the call has ended, raised
\* nothing and returned a text that contains the state of the task instance
\* ("N/A" when it has none), the grid view URL of the dag_id, dag_run_id and
\* task_id, and the message of the failure of the log request.
C5_FallbackReportsStateUrlAndError ==
    FallbackSucceeded =>
        /\ Done /\ escaped = <<>> /\ Len(result) = 1
        /\ Contains(Text, <<"- State: ">>
                          \o (IF "state" \in DOMAIN replies[2].value.o
                              THEN Str(replies[2].value.o["state"]) ELSE <<"N/A">>)
                          \o <<"\n">>)
        /\ Contains(Text, GridUrl)
        /\ Contains(Text, <<"Error: ">> \o replies[1].exc.msg)

\* The log request failed below HTTP and the task instance is in state failed.
C5_Witness ==
    /\ FallbackSucceeded /\ Done
    /\ answers[1].kind = "network_error"
    /\ "state" \in DOMAIN replies[2].value.o /\ replies[2].value.o["state"] = JStr("failed")
    /\ Len(result) = 1 /\ Contains(Text, <<"- State: ", "failed", "\n">>)

(* C6 *)

\* Both requests of get_task_logs failed.
BothFailed == name = "get_task_logs" /\ Len(replies) = 2 /\ Failed(1) /\ Failed(2)

\* C6: when the log request and the task-instance request of get_task_logs
\* both failed, the call has ended with the text of the outer handler,
\* "Error executing 'get_task_logs'" and the message of the second failure,
\* nothing raised, and two requests issued in all.
C6_FallbackFailureReachesOuterHandler ==
    BothFailed =>
        /\ Done /\ escaped = <<>> /\ Len(sent) = 2
        /\ result = <<TextContent(<<":x:", " Error executing '", "get_task_logs", "':\n\n">>
                                  \o replies[2].exc.msg)>>

\* A 404 for the logs, then a 403 for the task instance, which is reported.
C6_Witness ==
    /\ BothFailed /\ Done
    /\ answers[1] = HttpResponse(404, JObj([detail |-> JStr("DAG not found")]))
    /\ answers[2] = HttpResponse(403, JObj([detail |-> JStr("Forbidden")]))
    /\ Len(result) = 1 /\ Contains(Text, <<"403", "): ", "Forbidden">>)

(* C7 *)

\* Some API call of the invocation failed.
SomeCallFailed == \E i \in 1..Len(replies) : Failed(i)

\* The beginnings of the two texts that report a failure.
OuterHead == <<":x:", " Error executing '", name, "':\n\n">>
TestFailedHead == <<":x:", " Connection test failed for '">>

\* The statement as the claim has it: whenever an API call failed, the text
\* begins with the failure marker and holds the message of the failure.
C7_EveryFailureIsErrorShaped ==
    Done =>
        /\ Len(result) = 1
        /\ \A i \in 1..Len(replies) :
              Failed(i) => ErrorShaped(Text) /\ Contains(Text, replies[i].exc.msg)

\* The last API call succeeded with JSON that is no object, which the
\* formatting of every handler but the primary path of get_task_logs rejects.
FormattingFails ==
    /\ replies # <<>> /\ Succeeded(Len(replies)) /\ ~IsDict(replies[Len(replies)].value)
    /\ ~(name = "get_task_logs" /\ Len(replies) = 1)

\* C7: an error of the lookup, of the argument extraction, of the last API
\* call or of the formatting ends in a text that begins with the failure
\* marker and, for the last API call, holds its message: the text of the
\* outer handler or, in test_connection, of its own handler.  The one case
\* in which an API call failed and the text has no failure marker is
\* get_task_logs after a successful second request: the text then begins
\* with the information marker and ends with "Error: " and the message.
C7_FailuresReportedButForFallback ==
    Done =>
        /\ Len(result) = 1
        /\ (name \notin RegisteredNames \/ LacksRequired) => StartsWith(Text, OuterHead)
        /\ (replies # <<>> /\ Failed(Len(replies))) =>
              /\ StartsWith(Text, IF name = "test_connection" THEN TestFailedHead
                                  ELSE OuterHead)
              /\ Contains(Text, replies[Len(replies)].exc.msg)
        /\ FormattingFails =>
              StartsWith(Text, IF name = "test_connection" THEN TestFailedHead
                               ELSE OuterHead)
        /\ (SomeCallFailed /\ ~ErrorShaped(Text)) =>
              /\ name = "get_task_logs" /\ Len(replies) = 2 /\ Failed(1) /\ Succeeded(2)
              /\ Text[1] = ":information_source:"
              /\ SubSeq(Text, Len(Text) - Len(replies[1].exc.msg), Len(Text))
                    = <<"Error: ">> \o replies[1].exc.msg

\* The log request failed, the task-instance request succeeded, and the
\* text begins with the information marker.
C7_Witness ==
    /\ Done /\ name = "get_task_logs" /\ Len(replies) = 2 /\ Failed(1) /\ Succeeded(2)
    /\ Len(result) = 1 /\ Text[1] = ":information_source:"
    /\ answers[1].kind = "response" /\ answers[1].status = 404

(* C8 *)

\* C8: an invocation issues at most one request, get_task_logs at most two;
\* a second request follows only a first request that failed; no request is
\* sent twice; and when the call has ended every request has its outcome.
C8_SecondRequestOnlyAfterFailure ==
    /\ Len(sent) <= (IF name = "get_task_logs" THEN 2 ELSE 1)
    /\ Len(sent) = 2 => Failed(1)
    /\ \A i, j \in 1..Len(sent) : i # j => sent[i] # sent[j]
    /\ Done => Len(replies) = Len(sent)

(* C9 *)

\* The parameter list of the interface description: the parameters of each
\* tool and those marked as required.
InterfaceParams ==
    [get_dags |-> {"only_active", "limit"},
     get_dag_tasks |-> {"dag_id"},
     trigger_dag_run |-> {"dag_id", "conf", "logical_date"},
     clear_dag_run |-> {"dag_id", "dag_run_id", "dry_run"},
     set_dag_state |-> {"dag_id", "is_paused"},
     get_dag_runs |-> {"dag_id", "state", "limit"},
     get_task_instances |-> {"dag_id", "dag_run_id"},
     get_dag_stats |-> {},
     get_task_logs |-> {"dag_id", "dag_run_id", "task_id", "try_number"},
     get_import_errors |-> {},
     get_connections |-> {"limit"},
     get_connection |-> {"connection_id"},
     test_connection |-> {"connection_id"},
     check_health |-> {}]

InterfaceRequired ==
    [get_dags |-> {},
     get_dag_tasks |-> {"dag_id"},
     trigger_dag_run |-> {"dag_id"},
     clear_dag_run |-> {"dag_id", "dag_run_id"},
     set_dag_state |-> {"dag_id", "is_paused"},
     get_dag_runs |-> {"dag_id"},
     get_task_instances |-> {"dag_id", "dag_run_id"},
     get_dag_stats |-> {},
     get_task_logs |-> {"dag_id", "dag_run_id", "task_id"},
     get_import_errors |-> {},
     get_connections |-> {},
     get_connection |-> {"connection_id"},
     test_connection |-> {"connection_id"},
     check_health |-> {}]

\* A list of tools is the registry of the interface description.
IsTheRegistry(tools) ==
    /\ Len(tools) = Cardinality(DOMAIN InterfaceParams)
    /\ \A n \in DOMAIN InterfaceParams :
          /\ Cardinality({i \in 1..Len(tools) : tools[i].name = n}) = 1
          /\ \A i \in 1..Len(tools) : tools[i].name = n =>
                /\ tools[i].inputSchema.type = "object"
                /\ "properties" \in DOMAIN tools[i].inputSchema
                /\ DOMAIN tools[i].inputSchema.properties = InterfaceParams[n]
                /\ RequiredOf(tools[i].inputSchema) = InterfaceRequired[n]

\* C9: after any sequence of list_tools and call_tool, what list_tools last
\* returned is the fixed registry: 14 definitions, one for each name of the
\* interface description, each with a schema of type object, a property map
\* with the parameters of that name and a required list naming exactly its
\* required parameters (a schema without the list requires none); and it is
\* what the call before returned.
C9_RegistryFixed ==
    /\ listed # NoTools => IsTheRegistry(listed)
    /\ listedBefore # NoTools => listed = listedBefore

\* list_tools was called twice, with a call of a tool ended since.
C9_Witness == listed # NoTools /\ listedBefore # NoTools /\ Done /\ Len(listed) = 14

(* C10 *)

\* A conf argument that is a non-empty object, a logical_date that is a
\* non-empty string.
ConfProvided ==
    /\ IsDict(arguments) /\ "conf" \in DOMAIN arguments.o
    /\ arguments.o["conf"] # JObj(EmptyDict)
LogicalDateProvided ==
    /\ IsDict(arguments) /\ "logical_date" \in DOMAIN arguments.o
    /\ arguments.o["logical_date"] # JStr("")

\* C10: trigger_dag_run called with a dag_id issues one request and no
\* more, a POST to dags/{dag_id}/dagRuns; the JSON body has the key conf,
\* with the argument, exactly when a non-empty conf was given, the key
\* logical_date, with the argument, exactly when a non-empty logical_date
\* was given, and no other key.
C10_TriggerBody ==
    name = "trigger_dag_run" =>
        /\ (pc = "awaiting" \/ (Done /\ ~LacksRequired)) => Len(sent) = 1
        /\ \A i \in 1..Len(sent) :
              /\ sent[i].method = "POST"
              /\ sent[i].endpoint = <<"dags/">> \o Str(arguments.o["dag_id"]) \o <<"/dagRuns">>
              /\ IsDict(sent[i].json)
              /\ DOMAIN sent[i].json.o =
                    (IF ConfProvided THEN {"conf"} ELSE {})
                    \cup (IF LogicalDateProvided THEN {"logical_date"} ELSE {})
              /\ ConfProvided => sent[i].json.o["conf"] = arguments.o["conf"]
              /\ LogicalDateProvided =>
                    sent[i].json.o["logical_date"] = arguments.o["logical_date"]

\* An empty conf and a logical_date: the body holds the logical_date alone.
C10_Witness ==
    /\ Done /\ name = "trigger_dag_run" /\ Len(sent) = 1
    /\ IsDict(arguments) /\ "conf" \in DOMAIN arguments.o
    /\ arguments.o["conf"] = JObj(EmptyDict)
    /\ LogicalDateProvided
    /\ DOMAIN sent[1].json.o = {"logical_date"}

(* C11 *)

\* The key of the items in the response of a listing of runs or of task
\* instances, and the key of the name of an item.
ItemsKey == IF name = "get_dag_runs" THEN "dag_runs" ELSE "task_instances"
ItemIdKey == IF name = "get_dag_runs" THEN "dag_run_id" ELSE "task_id"

\* get_dag_runs or get_task_instances got a 2xx response that lists items,
\* each an object with its name.
ListedStates ==
    /\ name \in {"get_dag_runs", "get_task_instances"}
    /\ Len(replies) = 1 /\ Succeeded(1) /\ IsDict(replies[1].value)
    /\ ItemsKey \in DOMAIN replies[1].value.o
    /\ replies[1].value.o[ItemsKey].kind = "list"
    /\ \A i \in 1..Len(replies[1].value.o[ItemsKey].l) :
          /\ IsDict(replies[1].value.o[ItemsKey].l[i])
          /\ ItemIdKey \in DOMAIN replies[1].value.o[ItemsKey].l[i].o

\* The marker that an item is to be listed with: that of its lower-cased
\* state, the generic one for any other state and for an item without state
\* (no state member, or null).
MarkerOf(item) ==
    IF "state" \in DOMAIN item.o /\ item.o["state"].kind = "str"
    THEN EmojiOf(Lower(item.o["state"].s), name = "get_task_instances")
    ELSE ":question:"

\* Every item is listed with its marker, and the result is no error.
MarkersListed ==
    /\ Len(result) = 1 /\ ~ErrorShaped(Text)
    /\ \A i \in 1..Len(replies[1].value.o[ItemsKey].l) :
          Contains(Text, <<MarkerOf(replies[1].value.o[ItemsKey].l[i]), " **">>
                         \o Str(replies[1].value.o[ItemsKey].l[i].o[ItemIdKey])
                         \o <<"**\n">>)

\* C11: every item of a successful response of get_dag_runs or of
\* get_task_instances, whatever its state (a string in any letter case, or
\* none), is listed with the marker of its lower-cased state or with the
\* generic marker, and the result is no error.
C11_EveryStateHasItsMarker == Done /\ ListedStates => MarkersListed

\* No item of the response has null for its state.
NoNullState ==
    \A i \in 1..Len(replies[1].value.o[ItemsKey].l) :
        "state" \in DOMAIN replies[1].value.o[ItemsKey].l[i].o
            => replies[1].value.o[ItemsKey].l[i].o["state"].kind = "str"

\* The same holds of the responses without a null state.
StringStatesHaveTheirMarker == Done /\ ListedStates /\ NoNullState => MarkersListed

(* C12 *)

\* The last API call of the invocation got a 2xx response with a JSON object.
LastReplyObject ==
    /\ replies # <<>> /\ Succeeded(Len(replies)) /\ IsDict(replies[Len(replies)].value)

\* The member of the response that holds the items, for the listing tools.
ListKey ==
    [get_dags |-> "dags", get_dag_tasks |-> "tasks", clear_dag_run |-> "task_instances",
     get_dag_runs |-> "dag_runs", get_task_instances |-> "task_instances",
     get_dag_stats |-> "dags", get_import_errors |-> "import_errors",
     get_connections |-> "connections"]

\* The objects whose fields the formatter reads: the items of the listing,
\* or the response itself.
Subjects ==
    IF name \in DOMAIN ListKey
    THEN IF ListKey[name] \in DOMAIN replies[Len(replies)].value.o
         THEN replies[Len(replies)].value.o[ListKey[name]].l
         ELSE <<>>
    ELSE <<replies[Len(replies)].value>>

\* The fields that the formatter of a tool reads with the fallback "N/A",
\* each with the label that precedes it in the summary.
NAFields ==
    [get_dags |-> {<<"  - Description: ", "description">>,
                   <<"  - Schedule: ", "schedule_interval">>},
     get_dag_tasks |-> {<<"  - Type: ", "operator_name">>},
     trigger_dag_run |-> {<<"- **Execution Date**: ", "execution_date">>},
     clear_dag_run |-> {<<" (Try: ", "try_number">>},
     set_dag_state |-> {<<"- **Description**: ", "description">>,
                        <<"- **Schedule**: ", "schedule_interval">>},
     get_dag_runs |-> {<<"  - State: ", "state">>, <<"  - Start: ", "start_date">>,
                       <<"  - End: ", "end_date">>},
     get_task_instances |-> {<<"  - State: ", "state">>,
                             <<"  - Try Number: ", "try_number">>,
                             <<"  - Duration: ", "duration">>},
     get_dag_stats |-> {},
     get_task_logs |-> {<<"- State: ", "state">>, <<"- Try Number: ", "try_number">>,
                        <<"- Start Date: ", "start_date">>, <<"- End Date: ", "end_date">>},
     get_import_errors |-> {},
     get_connections |-> {<<"  - Type: ", "conn_type">>, <<"  - Host: ", "host">>,
                          <<"  - Schema: ", "schema">>},
     get_connection |-> {<<"- **Type**: ", "conn_type">>, <<"- **Host**: ", "host">>,
                         <<"- **Schema**: ", "schema">>, <<"- **Login**: ", "login">>,
                         <<"- **Port**: ", "port">>, <<"- **Extra**: ", "extra">>},
     test_connection |-> {<<"- **Type**: ", "conn_type">>, <<"- **Host**: ", "host">>},
     check_health |-> {}]

\* The fields that the formatter of a tool reads by subscription, of the
\* items of a listing or of the response itself.
SubscriptedFields ==
    [get_dags |-> {"dag_id"}, get_dag_tasks |-> {"task_id"},
     trigger_dag_run |-> {"dag_id", "dag_run_id", "state"},
     clear_dag_run |-> {"task_id"}, set_dag_state |-> {},
     get_dag_runs |-> {"dag_run_id"}, get_task_instances |-> {"task_id"},
     get_dag_stats |-> {"dag_id"}, get_task_logs |-> {}, get_import_errors |-> {},
     get_connections |-> {"connection_id"}, get_connection |-> {},
     test_connection |-> {}, check_health |-> {}]

\* The fields of the state statistics inside an item of get_dag_stats.
SubscriptedStatFields == {"state", "count"}

\* How often the fragments u occur in the text t.
Count(t, u) ==
    Cardinality({i \in 0..(Len(t) - Len(u)) : SubSeq(t, i + 1, i + Len(u)) = u})

\* The subjects that lack member k.
Lacking(k) == {i \in 1..Len(Subjects) : k \notin DOMAIN Subjects[i].o}

\* Every field with the fallback is rendered as "N/A" as often as it is
\* missing (the primary path of get_task_logs reads no such field).
NARendered ==
    \A f \in (IF name = "get_task_logs" /\ Len(replies) = 1 THEN {} ELSE NAFields[name]) :
        Count(Text, <<f[1], "N/A">>) = Cardinality(Lacking(f[2]))

RECURSIVE HasNull(_)
HasNull(v) ==
    CASE v.kind = "null" -> TRUE
      [] v.kind = "list" -> \E i \in 1..Len(v.l) : HasNull(v.l[i])
      [] v.kind = "obj" -> \E k \in DOMAIN v.o : HasNull(v.o[k])
      [] OTHER -> FALSE

\* The statement as the claim has it: whatever fields a 2xx JSON object
\* without null values lacks, the result is a success summary with "N/A" for
\* the missing fields.
C12_MissingFieldNeverAnError ==
    Done /\ LastReplyObject /\ ~HasNull(replies[Len(replies)].value) =>
        /\ Len(result) = 1 /\ ~ErrorShaped(Text)
        /\ NARendered

\* The message of the error text of the outer handler.
OuterMessage == SubSeq(Text, Len(OuterHead) + 1, Len(Text))

\* C12: after a 2xx JSON object, a result that is a summary renders every
\* field that is read with the fallback as "N/A" exactly where it is missing;
\* and a result that is an error is that of the outer handler for a field
\* read by subscription that is missing (the name of an item, or dag_id,
\* dag_run_id or state of the triggered run), or for a null value; no
\* missing field with a fallback makes the result an error.
C12_FallbackFieldsRenderedNA ==
    Done /\ LastReplyObject =>
        /\ Len(result) = 1
        /\ ~ErrorShaped(Text) => NARendered
        /\ ErrorShaped(Text) =>
              /\ StartsWith(Text, OuterHead)
              /\ \/ \E k \in SubscriptedFields[name] :
                       OuterMessage = <<"'", k, "'">> /\ Lacking(k) # {}
                 \/ /\ name = "get_dag_stats"
                    /\ \E k \in SubscriptedStatFields : OuterMessage = <<"'", k, "'">>
                 \/ /\ HasNull(replies[Len(replies)].value)
                    /\ \E i \in 1..Len(OuterMessage) : OuterMessage[i] = "NoneType"
        /\ (~HasNull(replies[Len(replies)].value)
            /\ \A k \in SubscriptedFields[name] : Lacking(k) = {}
            /\ name # "get_dag_stats") => ~ErrorShaped(Text)

\* A connection without host, schema, login and port is shown with "N/A"
\* for each of them.
C12_Witness ==
    /\ Done /\ name = "get_connection" /\ LastReplyObject
    /\ DOMAIN replies[1].value.o = {"connection_id"}
    /\ Len(result) = 1 /\ ~ErrorShaped(Text)
    /\ Contains(Text, <<"- **Host**: ", "N/A", "\n">>)

(* C13 *)

\* The four outcomes of make_api_request.
Parsed(i) == replies[i].kind = "ok"
ApiError(i) == replies[i].kind = "raise" /\ replies[i].exc.msg[1] = "API request failed ("
ConnectionError(i) == replies[i].kind = "raise" /\ replies[i].exc.msg[1] = "Connection error: "
UnexpectedError(i) == replies[i].kind = "raise" /\ replies[i].exc.msg[1] = "Unexpected error: "

\* The detail text of a response: the "detail" member of a body that is a
\* JSON object with one, the text of the body otherwise.
DetailText(o) ==
    IF o.parses /\ o.value.kind = "obj" /\ "detail" \in DOMAIN o.value.o
    THEN Str(o.value.o["detail"])
    ELSE IF o.parses THEN Dump(o.value, FALSE) ELSE <<o.raw>>

\* C13: every request that has been answered ended in exactly one of the
\* four outcomes: the parsed JSON for a 2xx response with a JSON body; an API
\* error with the status code and the detail text for a response outside 2xx,
\* and neither of the other errors; a connection error for a failure below
\* HTTP; an unexpected error with the message of the parser for a 2xx
\* response whose body is no JSON.
C13_FourOutcomes ==
    /\ Len(replies) = Len(answers)
    /\ \A i \in 1..Len(replies) :
          /\ Cardinality({k \in 1..4 :
                 \/ k = 1 /\ Parsed(i)
                 \/ k = 2 /\ ApiError(i)
                 \/ k = 3 /\ ConnectionError(i)
                 \/ k = 4 /\ UnexpectedError(i)}) = 1
          /\ answers[i].kind = "network_error" =>
                /\ ConnectionError(i)
                /\ replies[i].exc.msg = <<"Connection error: ", answers[i].cause>>
          /\ (answers[i].kind = "response" /\ ~(200 <= answers[i].status /\ answers[i].status < 300)) =>
                /\ ApiError(i)
                /\ replies[i].exc.msg =
                      <<"API request failed (", ToString(answers[i].status), "): ">>
                      \o DetailText(answers[i])
          /\ (answers[i].kind = "response" /\ 200 <= answers[i].status /\ answers[i].status < 300
              /\ answers[i].parses) =>
                Parsed(i) /\ replies[i].value = answers[i].value
          /\ (answers[i].kind = "response" /\ 200 <= answers[i].status /\ answers[i].status < 300
              /\ ~answers[i].parses) =>
                UnexpectedError(i) /\ Len(replies[i].exc.msg) = 2

\* A 500 whose JSON body has no detail member, reported with the body text,
\* followed by a 502 whose body is no JSON.
C13_Witness ==
    /\ Len(answers) = 2 /\ Len(replies) = 2
    /\ answers[1] = HttpResponse(500, JObj([title |-> JStr("Internal Server Error")]))
    /\ answers[2] = RawResponse(502, "<html>Bad Gateway</html>")
    /\ ApiError(1) /\ ApiError(2)
    /\ replies[2].exc.msg = <<"API request failed (", "502", "): ", "<html>Bad Gateway</html>">>

(* C14 *)

\* The methods that change the state of the upstream.
StateChanging == {"POST", "PATCH", "PUT", "DELETE"}

\* The one request that a state-changing tool may issue.
AllowedChange(req) ==
    \/ /\ name = "trigger_dag_run" /\ req.method = "POST"
       /\ req.endpoint = <<"dags/">> \o Str(arguments.o["dag_id"]) \o <<"/dagRuns">>
    \/ /\ name = "clear_dag_run" /\ req.method = "POST"
       /\ req.endpoint = <<"dags/">> \o Str(arguments.o["dag_id"]) \o <<"/dagRuns/">>
                         \o Str(arguments.o["dag_run_id"]) \o <<"/clear">>
    \/ /\ name = "set_dag_state" /\ req.method = "PATCH"
       /\ req.endpoint = <<"dags/">> \o Str(arguments.o["dag_id"])

\* C14: in every state of every sequence of invocations, a request of the
\* current invocation with a state-changing method is the POST of
\* trigger_dag_run or of clear_dag_run or the PATCH of set_dag_state, each to
\* its endpoint; the requests of every other tool, both requests of
\* get_task_logs and that of test_connection among them, are GET requests,
\* and an unknown tool name issues none.
C14_OnlyThreeToolsChangeState ==
    /\ \A i \in 1..Len(sent) :
          /\ sent[i].method \in StateChanging => AllowedChange(sent[i])
          /\ name \notin {"trigger_dag_run", "clear_dag_run", "set_dag_state"}
                => sent[i].method = "GET"
    /\ name \notin RegisteredNames => sent = <<>>

\* A dry run of clear_dag_run has ended, its one request a POST.
C14_Witness ==
    /\ Done /\ name = "clear_dag_run" /\ Len(sent) = 1
    /\ sent[1].method = "POST" /\ AllowedChange(sent[1])
    /\ sent[1].json = JObj([dry_run |-> JBool(TRUE)])

(* C15 *)

\* The i-th git command exited with code 0.
ExitedWithZero(i) == ran[i].outcome.kind = "exited" /\ ran[i].outcome.returncode = 0

\* The git commands run so far are the first of fetch, status, pull, each
\* at most once; none has run unless GIT_AUTO_UPDATE is "true"; status
\* followed a fetch that exited with 0, and pull a status that exited with 0
\* and printed "behind"; and no exception has left auto_update_check.
GitStepsInOrder ==
    /\ mainpc # "crashed"
    /\ env # JStr("true") => ran = <<>>
    /\ Len(ran) <= 3
    /\ \A i \in 1..Len(ran) :
          ran[i].cmd = <<<<"git", "fetch">>, <<"git", "status", "-uno", "-sb">>,
                         <<"git", "pull", "--ff-only">>>>[i]
    /\ Len(ran) >= 2 => ExitedWithZero(1)
    /\ Len(ran) = 3 =>
          /\ ExitedWithZero(2)
          /\ \E j \in 1..Len(ran[2].outcome.stdout) : ran[2].outcome.stdout[j] = "behind"

\* C15: auto_update_check never raises to main and runs its git steps in the
\* order fetch, status, pull, each only after the one before succeeded and
\* none unless GIT_AUTO_UPDATE is "true"; and whatever the outcome of the
\* steps, main goes on to start the server.
C15_UpdateCheckThenServer == []GitStepsInOrder /\ <>(mainpc = "serving")

\* The server has started although git pull timed out.
C15_Witness ==
    /\ mainpc = "serving" /\ env = JStr("true") /\ Len(ran) = 3
    /\ ExitedWithZero(1) /\ ExitedWithZero(2)
    /\ ran[3].cmd = <<"git", "pull", "--ff-only">>
    /\ ran[3].outcome.kind = "raised" /\ ran[3].outcome.exc.type = "TimeoutExpired"

====
